---- MODULE Spec2Model ----
(***************************************************************************)
(* Model of src/app.py: the turf booking back end.  The document store is  *)
(* four collections (users, turf_owners, turfs, bookings); every request   *)
(* handler is a sequence of store calls (find_one, insert_one, update_one, *)
(* delete_one).  Each store call is atomic, a handler is not: the server   *)
(* runs handlers on several worker threads (app.run, threaded), so the     *)
(* calls of different requests interleave.  One action of the model is one *)
(* store call of one handler, together with the local code that precedes   *)
(* and follows it.                                                         *)
(*                                                                         *)
(* Identifiers.  The store assigns an ObjectId to every document.  A       *)
(* request names a document by a 24-digit hexadecimal string, which        *)
(* ObjectId(...) parses without regard to the case of the digits, and      *)
(* str(...) prints in lower case.  An id string is modelled as a record    *)
(* [oid, sp]: the ObjectId it parses to and the spelling of its digits.    *)
(*                                                                         *)
(* Times.  A request names a time by an ISO string, modelled as a record   *)
(* [hour, frac, zone]: the hour, the fraction of a second in ticks of 100  *)
(* microseconds, and the zone suffix ("" or "Z").  parser.parse turns it   *)
(* into a datetime [at, aware]: the instant in ticks and whether it        *)
(* carries a tzinfo.  The store keeps datetimes in whole milliseconds.     *)
(* A price is an integer.                                                  *)
(***************************************************************************)
EXTENDS Integers, Sequences, FiniteSets, TLC

VARIABLES users, turf_owners, turfs, bookings, nextTurfId, req

vars == <<users, turf_owners, turfs, bookings, nextTurfId, req>>
store == <<users, turf_owners, turfs, bookings, nextTurfId>>

(***************************************************************************)
(* Bounds of the model.                                                    *)
(***************************************************************************)
\* The sequential specification: turfs created, bookings stored, last hour.
MaxTurfs == 1
MaxBookings == 1
MaxTime == 1
\* The price specification: last hour.
PriceMaxTime == 2
\* The concurrent specification.
ConcMaxBookings == 2
ConcMaxTime == 2
\* The specification of the id spellings and the interval positions.
CaseMaxBookings == 2
CaseMaxTime == 3
\* The release specification.
ReleaseMaxBookings == 3
ReleaseMaxTime == 3
\* The registration specification: actors stored per collection.
MaxActors == 2

(***************************************************************************)
(* Units of time.  One tick is 100 microseconds.                           *)
(***************************************************************************)
\* total_seconds() / 3600
SecondsPerHour == 3600
\* The ticks of the fraction field of a time string.
TicksPerSecond == 10000
\* The store's datetimes count milliseconds.
MsPerSecond == 1000

TicksPerHour == SecondsPerHour * TicksPerSecond
TicksPerMs == TicksPerSecond \div MsPerSecond

Procs == {1, 2}
Usernames == {"u1", "u2"}
Emails == {"a@x.com", "b@x.com"}
Passwords == {"pw"}

(***************************************************************************)
(* Identifier strings.                                                     *)
(***************************************************************************)
\* ObjectId(s): the parsed id; the case of the hex digits is lost.
ObjectId(s) == s.oid

\* str(oid): the canonical, lower-case, spelling.
Str(oid) == [oid |-> oid, sp |-> "lower"]

\* A string that is not 24 hexadecimal digits: ObjectId(...) raises
\* InvalidId on it.
Malformed == [oid |-> 0, sp |-> "malformed"]

\* ObjectId(s) returns.
ValidId(s) == s.sp # "malformed"


(***************************************************************************)
(* The requests a specification sends are drawn from an input record I:    *)
(* I.customers and I.owners (which registered actors send requests),       *)
(* I.spellings (how the turf id strings are spelt), I.prices and I.bodies  *)
(* (the prices of add_turf and the JSON bodies of update_turf), and the    *)
(* bounds I.max_turfs (turfs ever created), I.max_bookings (bookings       *)
(* stored) and I.max_time (the last hour a request names), I.fracs (the     *)
(* fractions of a second, in ticks) and I.zones (the zone suffixes) of     *)
(* its time strings.                                                       *)
(***************************************************************************)
TurfIdStrings(I) ==
    {[oid |-> n, sp |-> s] :
        n \in 1..I.max_turfs, s \in I.spellings \ {"malformed"}}
        \cup ({Malformed} \cap {[oid |-> 0, sp |-> s] : s \in I.spellings})

BookingIdStrings(I) ==
    {Str(n) : n \in 1..I.max_bookings}
        \cup ({Malformed} \cap {[oid |-> 0, sp |-> s] : s \in I.spellings})

\* The time strings of the requests.
Times(I) == [hour : 0..I.max_time, frac : I.fracs, zone : I.zones]

\* parser.parse(string): a datetime, aware when the string names a zone.
parser_parse(string) ==
    [at |-> string.hour * TicksPerHour + string.frac,
     aware |-> string.zone # ""]

\* Two datetimes compare (and subtract) when both or neither carry a
\* tzinfo; otherwise the comparison raises TypeError.
Comparable(a, b) == a.aware = b.aware

(***************************************************************************)
(* Responses: the message of the JSON body, as the handlers write it.      *)
(***************************************************************************)
TokenMissing == "Token is missing"
TokenInvalid == "Token is invalid"
Unauthorized == "Unauthorized"
MissingFields == "Missing fields"
EmailRegistered == "Email already registered"
UsernameTaken == "Username already taken"
UserCreated == "User created successfully"
OwnerCreated == "Turf owner created successfully"
InvalidInterval == "End time must be after start time"
TurfUnavailable == "Turf not found or unavailable"
SlotUnavailable == "Time slot unavailable"
BookingCreated == "Booking created successfully"
BookingNotFound == "Booking not found or unauthorized"
AlreadyCancelled == "Booking already cancelled"
BookingCancelled == "Booking cancelled successfully"
TurfAdded == "Turf added successfully"
TurfNotFound == "Turf not found or unauthorized"
NoFields == "No fields to update"
TurfUpdated == "Turf updated successfully"
HasActiveBookings == "Cannot delete turf with active bookings"
TurfDeleted == "Turf deleted successfully"
InvalidCredentials == "Invalid credentials"
LoginSuccessful == "Login successful"
NoBookingsFound == "No bookings found"
NoTurfsFound == "No turfs found"
\* A 200 response whose body is the list itself.
ListReturned == "200 OK"
\* An exception no handler catches: the framework answers 500.
ServerError == "500 Internal Server Error"

(***************************************************************************)
(* A worker: idle, inside a handler (pc names the next store call), or     *)
(* done with the response it returned.  A worker record holds the locals   *)
(* the handler has bound so far.                                           *)
(***************************************************************************)
IdleReq == [op |-> "none", pc |-> "idle"]
Free(p) == req[p].pc \in {"idle", "done"}
At(p, op, pc) == req[p].op = op /\ req[p].pc = pc
Returned(p, op, result) == At(p, op, "done") /\ req[p].result = result

\* The number of requests of operation op that are inside their handler.
InFlight(op) == Cardinality({p \in Procs : req[p].op = op /\ ~Free(p)})

(***************************************************************************)
(* Access gate: token_required, then the role test that opens each         *)
(* handler.  A token is missing, invalid (malformed, expired or badly      *)
(* signed) or carries the user_type and user_id a login signed.            *)
(***************************************************************************)
UserToken(doc) ==
    [kind |-> "signed", user_type |-> "user", user_id |-> Str(doc.id)]

OwnerToken(doc) ==
    [kind |-> "signed", user_type |-> "owner", user_id |-> Str(doc.id)]

Tokens(I) ==
    {[kind |-> "missing"], [kind |-> "invalid"]}
        \cup {UserToken(users[i]) : i \in I.customers \cap DOMAIN users}
        \cup {OwnerToken(turf_owners[i]) : i \in I.owners \cap DOMAIN turf_owners}

token_required(token) ==
    IF token.kind = "missing" THEN TokenMissing
    ELSE IF token.kind = "invalid" THEN TokenInvalid
    ELSE "ok"

\* current_user = data['user_type'], data['user_id']
CurrentUser(token) == <<token.user_type, token.user_id>>

\* A slip in the gate: the role test is left out.
GateAnyRole(token, role) == token_required(token)

\* The response of the gate for a handler that requires `role`, "ok" to go on.
Gate(token, role) ==
    IF token_required(token) # "ok" THEN token_required(token)
    ELSE IF CurrentUser(token)[1] # role THEN Unauthorized
    ELSE "ok"

Reject(op, result) == [op |-> op, pc |-> "done", result |-> result]

\* The handler of record r returns `result`.
Return(r, result) == [r EXCEPT !.pc = "done"] @@ [result |-> result]

\* The tokens the gate of a handler that requires `role` lets through.
Admitted(I, role) == {token \in Tokens(I) : Gate(token, role) = "ok"}

\* The gate answers the request of worker p itself: the handler body never
\* runs.
GateRejects(p, I, op, role) ==
    \E token \in Tokens(I) \ Admitted(I, role) :
        req' = [req EXCEPT ![p] =
                   Reject(op, Gate(token, role)) @@ [token |-> token]]

(***************************************************************************)
(* Document store calls.                                                   *)
(***************************************************************************)
None == [none |-> TRUE]

\* find_one: the first document of the collection among those the filter
\* matches (hits: their positions), or None.
FindOne(coll, hits) ==
    IF hits = {} THEN None
    ELSE coll[CHOOSE i \in hits : \A j \in hits : i <= j]

\* A datetime as the driver encodes it, in documents and in filters: the
\* instant cut down to whole milliseconds.
bson_datetime(at) == at - (at % TicksPerMs)

\* The fields that hold datetimes.
DatetimeFields == {"start_time", "end_time", "created_at"}

\* The document as the driver encodes it.
bson_encode(doc) ==
    [f \in DOMAIN doc |->
        IF f \in DatetimeFields THEN bson_datetime(doc[f]) ELSE doc[f]]

\* insert_one: the encoded document is appended.
InsertOne(coll, doc) == Append(coll, bson_encode(doc))

\* update_one({'_id': oid}, {'$set': fields}): the document with that id
\* (ids are unique) gets the fields, those it did not hold included; no
\* document, no change.
UpdateOne(coll, oid, fields) ==
    [i \in 1..Len(coll) |->
        IF coll[i].id = oid
        THEN [f \in DOMAIN coll[i] \cup DOMAIN fields |->
                 IF f \in DOMAIN fields THEN bson_encode(fields)[f]
                 ELSE coll[i][f]]
        ELSE coll[i]]

\* delete_one({'_id': oid}).
DeleteOne(coll, oid) == SelectSeq(coll, LAMBDA d : d.id # oid)

\* find(filter): the documents the filter matches (hits: their positions),
\* in the order of the collection.
Find(coll, hits) ==
    LET prefix[n \in 0..Len(coll)] ==
            IF n = 0 THEN <<>>
            ELSE IF n \in hits THEN Append(prefix[n - 1], coll[n])
            ELSE prefix[n - 1]
    IN  prefix[Len(coll)]

\* The key a field of a modelled document has in the stored document: the
\* model's id is the store's '_id'.
DocumentKey(f) == IF f = "id" THEN "_id" ELSE f

\* Meta.fields of TurfSchema and of BookingSchema.
TurfSchema ==
    {"id", "name", "location", "size", "amenities", "price_per_hour",
     "owner_id", "availability", "surface_type", "capacity", "description"}

BookingSchema ==
    {"id", "user_id", "turf_id", "start_time", "end_time", "status",
     "total_cost", "created_at", "notes"}

\* schema.dump of one document: the fields of the schema whose key the
\* document holds; the stored '_id' is no field of either schema, and the
\* schema's 'id' is no key of a stored document.
dump(doc, schema) ==
    [f \in {g \in DOMAIN doc : DocumentKey(g) \in schema} |-> doc[f]]

\* schema.dump(list) with many=True.
dump_many(list, schema) == [k \in DOMAIN list |-> dump(list[k], schema)]

(***************************************************************************)
(* Registration: user_register and owner_register.  Three store calls:     *)
(* the lookup by email, the lookup by username, the insert.                *)
(***************************************************************************)
\* generate_password_hash: one-way; the model keeps what it is a hash of.
generate_password_hash(password) == [hash_of |-> password]

RegisterReceive(p, op, username, email, password) ==
    /\ Free(p)
    /\ req' = [req EXCEPT ![p] =
                  IF "" \in {username, email, password}
                  THEN Reject(op, MissingFields)
                  ELSE [op |-> op, pc |-> "find_email", username |-> username,
                        email |-> email, password |-> password]]
    /\ UNCHANGED store

RegisterFindEmail(p, op, coll) ==
    /\ At(p, op, "find_email")
    /\ req' = [req EXCEPT ![p] =
                  IF FindOne(coll, {i \in DOMAIN coll :
                                       coll[i].email = req[p].email}) # None
                  THEN [req[p] EXCEPT !.pc = "done"] @@ [result |-> EmailRegistered]
                  ELSE [req[p] EXCEPT !.pc = "find_username"]]
    /\ UNCHANGED store

RegisterFindUsername(p, op, coll) ==
    /\ At(p, op, "find_username")
    /\ req' = [req EXCEPT ![p] =
                  IF FindOne(coll, {i \in DOMAIN coll :
                                       coll[i].username = req[p].username}) # None
                  THEN [req[p] EXCEPT !.pc = "done"] @@ [result |-> UsernameTaken]
                  ELSE [req[p] EXCEPT !.pc = "insert"]]
    /\ UNCHANGED store

\* The actor document the insert writes; the store assigns the id.
ActorDoc(coll, r) ==
    [id |-> Len(coll) + 1, username |-> r.username, email |-> r.email,
     password |-> generate_password_hash(r.password)]

user_register_receive(p) ==
    \E u \in Usernames \cup {""}, e \in Emails, pw \in Passwords :
        /\ Len(users) + InFlight("user_register") < MaxActors
        /\ RegisterReceive(p, "user_register", u, e, pw)

\* A slip in the lookup: the email is looked up among the owners.
user_register_find_email_owners(p) ==
    RegisterFindEmail(p, "user_register", turf_owners)

user_register_find_email(p) == RegisterFindEmail(p, "user_register", users)

user_register_find_username(p) == RegisterFindUsername(p, "user_register", users)

user_register_insert(p) ==
    /\ At(p, "user_register", "insert")
    /\ users' = InsertOne(users, ActorDoc(users, req[p]))
    /\ req' = [req EXCEPT ![p] =
                  [@ EXCEPT !.pc = "done"] @@ [result |-> UserCreated]]
    /\ UNCHANGED <<turf_owners, turfs, bookings, nextTurfId>>

owner_register_receive(p) ==
    \E u \in Usernames \cup {""}, e \in Emails, pw \in Passwords :
        /\ Len(turf_owners) + InFlight("owner_register") < MaxActors
        /\ RegisterReceive(p, "owner_register", u, e, pw)

owner_register_find_email(p) ==
    RegisterFindEmail(p, "owner_register", turf_owners)

owner_register_find_username(p) ==
    RegisterFindUsername(p, "owner_register", turf_owners)

owner_register_insert(p) ==
    /\ At(p, "owner_register", "insert")
    /\ turf_owners' = InsertOne(turf_owners, ActorDoc(turf_owners, req[p]))
    /\ req' = [req EXCEPT ![p] =
                  [@ EXCEPT !.pc = "done"] @@ [result |-> OwnerCreated]]
    /\ UNCHANGED <<users, turfs, bookings, nextTurfId>>

Register(p) ==
    \/ user_register_receive(p)
    \/ user_register_find_email(p)
    \/ user_register_find_username(p)
    \/ user_register_insert(p)
    \/ owner_register_receive(p)
    \/ owner_register_find_email(p)
    \/ owner_register_find_username(p)
    \/ owner_register_insert(p)

(***************************************************************************)
(* Login: user_login and owner_login.  One store call: the lookup by       *)
(* email.                                                                  *)
(***************************************************************************)
\* The passwords a login request carries: a registered one and another.
LoginPasswords == Passwords \cup {"wrong"}

\* A slip in the verification: every password passes.
check_password_hash_any(pwhash, password) == TRUE

\* check_password_hash(user['password'], password)
check_password_hash(pwhash, password) == pwhash.hash_of = password

\* jwt.encode({'user_type': ..., 'user_id': str(doc['_id']), 'exp': ...})
jwt_encode(user_type, doc) ==
    IF user_type = "user" THEN UserToken(doc) ELSE OwnerToken(doc)

LoginReceive(p, op, email, password) ==
    /\ Free(p)
    /\ req' = [req EXCEPT ![p] =
                  IF "" \in {email, password}
                  THEN Reject(op, MissingFields)
                  ELSE [op |-> op, pc |-> "find", email |-> email,
                        password |-> password]]
    /\ UNCHANGED store

LoginFind(p, op, coll, user_type) ==
    /\ At(p, op, "find")
    /\ LET user == FindOne(coll, {i \in DOMAIN coll :
                                     coll[i].email = req[p].email})
       IN  req' = [req EXCEPT ![p] =
                      IF \/ user = None
                         \/ ~check_password_hash(user.password, req[p].password)
                      THEN Return(@, InvalidCredentials)
                      ELSE Return(@, LoginSuccessful)
                               @@ [token |-> jwt_encode(user_type, user)]]
    /\ UNCHANGED store

user_login_receive(p) ==
    \E e \in Emails \cup {""}, pw \in LoginPasswords :
        LoginReceive(p, "user_login", e, pw)

user_login_find(p) == LoginFind(p, "user_login", users, "user")

owner_login_receive(p) ==
    \E e \in Emails \cup {""}, pw \in LoginPasswords :
        LoginReceive(p, "owner_login", e, pw)

owner_login_find(p) == LoginFind(p, "owner_login", turf_owners, "owner")

Login(p) ==
    \/ user_login_receive(p)
    \/ user_login_find(p)
    \/ owner_login_receive(p)
    \/ owner_login_find(p)

(***************************************************************************)
(* book_turf.  Three store calls: the turf lookup, the overlap lookup, the *)
(* insert.                                                                 *)
(***************************************************************************)
\* The filter of the overlap lookup: a confirmed booking whose turf_id is
\* the request's string and whose times match one of the three $or clauses;
\* the times of the filter are encoded as those of a document.
OverlapFilter(b, turf_id, start_time, end_time) ==
    LET qstart == bson_datetime(start_time)
        qend == bson_datetime(end_time)
    IN  /\ b.turf_id = turf_id
        /\ b.status = "confirmed"
        /\ \/ b.start_time <= qend /\ b.start_time >= qstart
           \/ b.end_time >= qstart /\ b.end_time <= qend
           \/ b.start_time <= qstart /\ b.end_time >= qend

\* A number of the program that need not be whole: the integer when it is,
\* else the fraction num / den.
Quotient(num, den) ==
    IF num % den = 0 THEN num \div den ELSE [num |-> num, den |-> den]

\* (end_time - start_time).total_seconds() / 3600, as ticks over the ticks
\* of an hour.
duration_hours(start_time, end_time) ==
    [num |-> end_time - start_time, den |-> TicksPerHour]

\* A slip in the cost: the hours are added to the price.
total_cost_added(price_per_hour, start_time, end_time) ==
    LET hours == duration_hours(start_time, end_time)
    IN  Quotient(price_per_hour * hours.den + hours.num, hours.den)

\* turf['price_per_hour'] * duration_hours
total_cost(price_per_hour, start_time, end_time) ==
    LET hours == duration_hours(start_time, end_time)
    IN  Quotient(price_per_hour * hours.num, hours.den)

\* A slip in the insert: the booking starts in another status.
BookingDocPending(r) ==
    [id |-> Len(bookings) + 1,
     user_id |-> r.current_user[2],
     turf_id |-> r.turf_id,
     start_time |-> r.start_time,
     end_time |-> r.end_time,
     status |-> "pending",
     total_cost |-> total_cost(r.turf.price_per_hour, r.start_time, r.end_time),
     notes |-> ""]

\* The document book_turf inserts; the store assigns the id.  The requests
\* of the model send no notes: data.get('notes', '').
BookingDoc(r) ==
    [id |-> Len(bookings) + 1,
     user_id |-> r.current_user[2],
     turf_id |-> r.turf_id,
     start_time |-> r.start_time,
     end_time |-> r.end_time,
     status |-> "confirmed",
     total_cost |-> total_cost(r.turf.price_per_hour, r.start_time, r.end_time),
     notes |-> ""]

\* start_time >= end_time, of two datetimes that compare.
invalid_interval(start_time, end_time) == start_time.at >= end_time.at

\* A slip in the turf lookup: the availability flag is not part of the
\* filter.
AnyTurfFilter(t, turf_id) == t.id = ObjectId(turf_id)

\* The filter {'_id': ObjectId(turf_id), 'availability': True}.
AvailableTurfFilter(t, turf_id) ==
    /\ t.id = ObjectId(turf_id)
    /\ t.availability = TRUE

book_turf_receive(p, I) ==
    /\ Free(p)
    /\ Len(bookings) + InFlight("book_turf") < I.max_bookings
    /\ \/ GateRejects(p, I, "book_turf", "user")
       \/ \E token \in Admitted(I, "user"), turf_id \in TurfIdStrings(I),
             s \in Times(I), e \in Times(I) :
              LET start_time == parser_parse(s)
                  end_time == parser_parse(e)
              IN  req' = [req EXCEPT ![p] =
                      IF ~Comparable(start_time, end_time)
                      THEN Reject("book_turf", ServerError)
                      ELSE IF invalid_interval(start_time, end_time)
                      THEN Reject("book_turf", InvalidInterval)
                      ELSE [op |-> "book_turf", pc |-> "find_turf",
                            current_user |-> CurrentUser(token),
                            turf_id |-> turf_id,
                            start_time |-> start_time.at,
                            end_time |-> end_time.at]]
    /\ UNCHANGED store

book_turf_find_turf(p) ==
    /\ At(p, "book_turf", "find_turf")
    /\ LET turf == FindOne(turfs, {i \in DOMAIN turfs :
                               AvailableTurfFilter(turfs[i], req[p].turf_id)})
       IN  req' = [req EXCEPT ![p] =
                      IF ~ValidId(req[p].turf_id)
                      THEN Return(@, ServerError)
                      ELSE IF turf = None
                      THEN [@ EXCEPT !.pc = "done"] @@ [result |-> TurfUnavailable]
                      ELSE [@ EXCEPT !.pc = "find_overlap"] @@ [turf |-> turf]]
    /\ UNCHANGED store

book_turf_find_overlap(p) ==
    /\ At(p, "book_turf", "find_overlap")
    /\ LET existing_booking ==
               FindOne(bookings, {i \in DOMAIN bookings :
                   OverlapFilter(bookings[i], req[p].turf_id,
                                 req[p].start_time, req[p].end_time)})
       IN  req' = [req EXCEPT ![p] =
                      IF existing_booking # None
                      THEN [@ EXCEPT !.pc = "done"] @@ [result |-> SlotUnavailable]
                      ELSE [@ EXCEPT !.pc = "insert"]]
    /\ UNCHANGED store

book_turf_insert(p) ==
    /\ At(p, "book_turf", "insert")
    /\ bookings' = InsertOne(bookings, BookingDoc(req[p]))
    /\ req' = [req EXCEPT ![p] =
                  [@ EXCEPT !.pc = "done"]
                      @@ [result |-> BookingCreated, id |-> Len(bookings) + 1]]
    /\ UNCHANGED <<users, turf_owners, turfs, nextTurfId>>

(***************************************************************************)
(* cancel_booking.  Two store calls: the lookup and the status update.     *)
(***************************************************************************)
\* A slip in the lookup: the customer is not part of the filter.
AnyBookingFilter(b, r) == b.id = ObjectId(r.id)

\* The filter {'_id': ObjectId(id), 'user_id': current_user[1]}.
OwnBookingFilter(b, r) ==
    /\ b.id = ObjectId(r.id)
    /\ b.user_id = r.current_user[2]

\* A slip in the status test: no booking counts as cancelled.
NeverCancelled(booking) == FALSE

\* booking['status'] == 'cancelled'
IsCancelled(booking) == booking.status = "cancelled"

cancel_booking_receive(p, I) ==
    /\ Free(p)
    /\ \/ GateRejects(p, I, "cancel_booking", "user")
       \/ \E token \in Admitted(I, "user"), id \in BookingIdStrings(I) :
              req' = [req EXCEPT ![p] =
                         [op |-> "cancel_booking", pc |-> "find_booking",
                          current_user |-> CurrentUser(token), id |-> id]]
    /\ UNCHANGED store

cancel_booking_find(p) ==
    /\ At(p, "cancel_booking", "find_booking")
    /\ LET booking == FindOne(bookings, {i \in DOMAIN bookings :
                                  OwnBookingFilter(bookings[i], req[p])})
       IN  req' = [req EXCEPT ![p] =
                      IF ~ValidId(req[p].id)
                      THEN Return(@, ServerError)
                      ELSE IF booking = None
                      THEN [@ EXCEPT !.pc = "done"] @@ [result |-> BookingNotFound]
                      ELSE IF IsCancelled(booking)
                      THEN [@ EXCEPT !.pc = "done"] @@ [result |-> AlreadyCancelled]
                      ELSE [@ EXCEPT !.pc = "update"]]
    /\ UNCHANGED store

\* A slip in the write: the notes are overwritten too.
cancel_set_notes == [status |-> "cancelled", notes |-> "cancelled"]

\* {'$set': {'status': 'cancelled'}}
cancel_set == [status |-> "cancelled"]

cancel_booking_update(p) ==
    /\ At(p, "cancel_booking", "update")
    /\ bookings' = UpdateOne(bookings, ObjectId(req[p].id), cancel_set)
    /\ req' = [req EXCEPT ![p] =
                  [@ EXCEPT !.pc = "done"] @@ [result |-> BookingCancelled]]
    /\ UNCHANGED <<users, turf_owners, turfs, nextTurfId>>

(***************************************************************************)
(* add_turf.  One store call: the insert.                                  *)
(***************************************************************************)
\* not all([..., price_per_hour, ...]): a price of 0 counts as missing; the
\* other required fields are present in every request of the model.
add_turf_missing(price_per_hour) == price_per_hour = 0

\* The fields every add_turf request of the model sends besides the price
\* and the flag.
AddTurfData ==
    [name |-> "turf", location |-> "town", size |-> "5x5",
     amenities |-> <<>>, surface_type |-> "grass", capacity |-> "10",
     description |-> ""]

TurfDoc(r) ==
    [id |-> nextTurfId,
     owner_id |-> r.current_user[2],
     name |-> r.name,
     location |-> r.location,
     size |-> r.size,
     amenities |-> r.amenities,
     price_per_hour |-> r.price_per_hour,
     availability |-> r.availability,
     surface_type |-> r.surface_type,
     capacity |-> r.capacity,
     description |-> r.description]

add_turf_receive(p, I) ==
    /\ Free(p)
    /\ nextTurfId + InFlight("add_turf") <= I.max_turfs
    /\ \/ GateRejects(p, I, "add_turf", "owner")
       \/ \E token \in Admitted(I, "owner"), price \in I.prices :
              /\ add_turf_missing(price)
              /\ req' = [req EXCEPT ![p] = Reject("add_turf", MissingFields)]
       \/ \E token \in Admitted(I, "owner"), price \in I.prices,
             availability \in BOOLEAN :
              /\ ~add_turf_missing(price)
              /\ req' = [req EXCEPT ![p] =
                            [op |-> "add_turf", pc |-> "insert",
                             current_user |-> CurrentUser(token),
                             price_per_hour |-> price,
                             availability |-> availability]
                            @@ AddTurfData]
    /\ UNCHANGED store

add_turf_insert(p) ==
    /\ At(p, "add_turf", "insert")
    /\ turfs' = InsertOne(turfs, TurfDoc(req[p]))
    /\ nextTurfId' = nextTurfId + 1
    /\ req' = [req EXCEPT ![p] =
                  [@ EXCEPT !.pc = "done"]
                      @@ [result |-> TurfAdded, id |-> nextTurfId]]
    /\ UNCHANGED <<users, turf_owners, bookings>>

(***************************************************************************)
(* update_turf.  Two store calls: the lookup and the update.               *)
(***************************************************************************)
\* The fields the loop of update_turf looks for in the request.
UpdatableFields ==
    {"name", "location", "size", "amenities", "price_per_hour",
     "availability", "surface_type", "capacity", "description"}

\* A slip in the loop: only the price is copied.
update_data_price(data) ==
    [f \in DOMAIN data \cap {"price_per_hour"} |-> data[f]]

\* The loop that copies the updatable fields present in the request.
update_data(data) == [f \in DOMAIN data \cap UpdatableFields |-> data[f]]

\* A slip in the lookup: the owner is not part of the filter.
AnyTurf(r) ==
    FindOne(turfs, {i \in DOMAIN turfs : turfs[i].id = ObjectId(r.id)})

\* The lookup {'_id': ObjectId(id), 'owner_id': current_user[1]}.
OwnTurf(r) ==
    FindOne(turfs, {i \in DOMAIN turfs :
                       /\ turfs[i].id = ObjectId(r.id)
                       /\ turfs[i].owner_id = r.current_user[2]})

update_turf_receive(p, I) ==
    /\ Free(p)
    /\ \/ GateRejects(p, I, "update_turf", "owner")
       \/ \E token \in Admitted(I, "owner"), id \in TurfIdStrings(I),
             data \in I.bodies :
              req' = [req EXCEPT ![p] =
                         [op |-> "update_turf", pc |-> "find_turf",
                          current_user |-> CurrentUser(token), id |-> id,
                          data |-> data]]
    /\ UNCHANGED store

update_turf_find(p) ==
    /\ At(p, "update_turf", "find_turf")
    /\ req' = [req EXCEPT ![p] =
                  IF ~ValidId(req[p].id)
                  THEN Return(@, ServerError)
                  ELSE IF OwnTurf(req[p]) = None
                  THEN [@ EXCEPT !.pc = "done"] @@ [result |-> TurfNotFound]
                  ELSE IF DOMAIN update_data(req[p].data) = {}
                  THEN [@ EXCEPT !.pc = "done"] @@ [result |-> NoFields]
                  ELSE [@ EXCEPT !.pc = "update"]]
    /\ UNCHANGED store

update_turf_update(p) ==
    /\ At(p, "update_turf", "update")
    /\ turfs' = UpdateOne(turfs, ObjectId(req[p].id), update_data(req[p].data))
    /\ req' = [req EXCEPT ![p] =
                  [@ EXCEPT !.pc = "done"] @@ [result |-> TurfUpdated]]
    /\ UNCHANGED <<users, turf_owners, bookings, nextTurfId>>

(***************************************************************************)
(* delete_turf.  Three store calls: the turf lookup, the lookup of a       *)
(* confirmed booking, the delete.                                          *)
(***************************************************************************)
\* The filter {'turf_id': id, 'status': 'confirmed'}: id is the string of
\* the request path.
ActiveFilter(b, id) == b.turf_id = id /\ b.status = "confirmed"

delete_turf_receive(p, I) ==
    /\ Free(p)
    /\ \/ GateRejects(p, I, "delete_turf", "owner")
       \/ \E token \in Admitted(I, "owner"), id \in TurfIdStrings(I) :
              req' = [req EXCEPT ![p] =
                         [op |-> "delete_turf", pc |-> "find_turf",
                          current_user |-> CurrentUser(token), id |-> id]]
    /\ UNCHANGED store

delete_turf_find(p) ==
    /\ At(p, "delete_turf", "find_turf")
    /\ req' = [req EXCEPT ![p] =
                  IF ~ValidId(req[p].id)
                  THEN Return(@, ServerError)
                  ELSE IF OwnTurf(req[p]) = None
                  THEN [@ EXCEPT !.pc = "done"] @@ [result |-> TurfNotFound]
                  ELSE [@ EXCEPT !.pc = "find_active"]]
    /\ UNCHANGED store

\* A slip in the guard: the turf is deleted before the guard answers.
delete_turf_find_active_eager(p) ==
    /\ At(p, "delete_turf", "find_active")
    /\ LET active_bookings ==
               FindOne(bookings, {i \in DOMAIN bookings :
                                     ActiveFilter(bookings[i], req[p].id)})
       IN  req' = [req EXCEPT ![p] =
                      IF active_bookings # None
                      THEN [@ EXCEPT !.pc = "done"] @@ [result |-> HasActiveBookings]
                      ELSE [@ EXCEPT !.pc = "delete"]]
    /\ turfs' = DeleteOne(turfs, ObjectId(req[p].id))
    /\ UNCHANGED <<users, turf_owners, bookings, nextTurfId>>

delete_turf_find_active(p) ==
    /\ At(p, "delete_turf", "find_active")
    /\ LET active_bookings ==
               FindOne(bookings, {i \in DOMAIN bookings :
                                     ActiveFilter(bookings[i], req[p].id)})
       IN  req' = [req EXCEPT ![p] =
                      IF active_bookings # None
                      THEN [@ EXCEPT !.pc = "done"] @@ [result |-> HasActiveBookings]
                      ELSE [@ EXCEPT !.pc = "delete"]]
    /\ UNCHANGED store

\* A slip in the delete: the bookings of the turf are deleted with it.
delete_turf_delete_cascade(p) ==
    /\ At(p, "delete_turf", "delete")
    /\ turfs' = DeleteOne(turfs, ObjectId(req[p].id))
    /\ bookings' = SelectSeq(bookings, LAMBDA b : b.turf_id # req[p].id)
    /\ req' = [req EXCEPT ![p] =
                  [@ EXCEPT !.pc = "done"] @@ [result |-> TurfDeleted]]
    /\ UNCHANGED <<users, turf_owners, nextTurfId>>

delete_turf_delete(p) ==
    /\ At(p, "delete_turf", "delete")
    /\ turfs' = DeleteOne(turfs, ObjectId(req[p].id))
    /\ req' = [req EXCEPT ![p] =
                  [@ EXCEPT !.pc = "done"] @@ [result |-> TurfDeleted]]
    /\ UNCHANGED <<users, turf_owners, bookings, nextTurfId>>

(***************************************************************************)
(* The list routes: get_user_bookings and get_owner_turfs (one store call) *)
(* and get_turf_bookings (the turf lookup, then the bookings).             *)
(***************************************************************************)
\* A list route answers 404 with `empty` for an empty list, else the list.
ListResponse(r, list, empty) ==
    IF list = <<>> THEN Return(r, empty)
    ELSE Return(r, ListReturned) @@ [body |-> list]

\* A slip in the filter: only the confirmed bookings are listed.
ConfirmedUserBookingsFilter(b, r) ==
    b.user_id = r.current_user[2] /\ b.status = "confirmed"

\* The filter {'user_id': current_user[1]}.
UserBookingsFilter(b, r) == b.user_id = r.current_user[2]

get_user_bookings_receive(p, I) ==
    /\ Free(p)
    /\ \/ GateRejects(p, I, "get_user_bookings", "user")
       \/ \E token \in Admitted(I, "user") :
              req' = [req EXCEPT ![p] =
                         [op |-> "get_user_bookings", pc |-> "find",
                          current_user |-> CurrentUser(token)]]
    /\ UNCHANGED store

get_user_bookings_find(p) ==
    /\ At(p, "get_user_bookings", "find")
    /\ LET bookings_list ==
               dump_many(Find(bookings,
                              {i \in DOMAIN bookings :
                                  UserBookingsFilter(bookings[i], req[p])}),
                         BookingSchema)
       IN  req' = [req EXCEPT ![p] =
                      ListResponse(@, bookings_list, NoBookingsFound)]
    /\ UNCHANGED store

get_owner_turfs_receive(p, I) ==
    /\ Free(p)
    /\ \/ GateRejects(p, I, "get_owner_turfs", "owner")
       \/ \E token \in Admitted(I, "owner") :
              req' = [req EXCEPT ![p] =
                         [op |-> "get_owner_turfs", pc |-> "find",
                          current_user |-> CurrentUser(token)]]
    /\ UNCHANGED store

get_owner_turfs_find(p) ==
    /\ At(p, "get_owner_turfs", "find")
    /\ LET turfs_list ==
               dump_many(Find(turfs,
                              {i \in DOMAIN turfs :
                                  turfs[i].owner_id = req[p].current_user[2]}),
                         TurfSchema)
       IN  req' = [req EXCEPT ![p] =
                      ListResponse(@, turfs_list, NoTurfsFound)]
    /\ UNCHANGED store

get_turf_bookings_receive(p, I) ==
    /\ Free(p)
    /\ \/ GateRejects(p, I, "get_turf_bookings", "owner")
       \/ \E token \in Admitted(I, "owner"), id \in TurfIdStrings(I) :
              req' = [req EXCEPT ![p] =
                         [op |-> "get_turf_bookings", pc |-> "find_turf",
                          current_user |-> CurrentUser(token), id |-> id]]
    /\ UNCHANGED store

get_turf_bookings_find_turf(p) ==
    /\ At(p, "get_turf_bookings", "find_turf")
    /\ req' = [req EXCEPT ![p] =
                  IF ~ValidId(req[p].id)
                  THEN Return(@, ServerError)
                  ELSE IF OwnTurf(req[p]) = None
                  THEN Return(@, TurfNotFound)
                  ELSE [@ EXCEPT !.pc = "find_bookings"]]
    /\ UNCHANGED store

get_turf_bookings_find_bookings(p) ==
    /\ At(p, "get_turf_bookings", "find_bookings")
    /\ LET bookings_list ==
               dump_many(Find(bookings,
                              {i \in DOMAIN bookings :
                                  bookings[i].turf_id = req[p].id}),
                         BookingSchema)
       IN  req' = [req EXCEPT ![p] =
                      ListResponse(@, bookings_list, NoBookingsFound)]
    /\ UNCHANGED store

\* One step of worker p in the list routes.
List(p, I) ==
    \/ get_user_bookings_receive(p, I)
    \/ get_user_bookings_find(p)
    \/ get_owner_turfs_receive(p, I)
    \/ get_owner_turfs_find(p)
    \/ get_turf_bookings_receive(p, I)
    \/ get_turf_bookings_find_turf(p)
    \/ get_turf_bookings_find_bookings(p)

\* One step of worker p in the turf and booking routes.
Handle(p, I) ==
    \/ book_turf_receive(p, I)
    \/ book_turf_find_turf(p)
    \/ book_turf_find_overlap(p)
    \/ book_turf_insert(p)
    \/ cancel_booking_receive(p, I)
    \/ cancel_booking_find(p)
    \/ cancel_booking_update(p)
    \/ add_turf_receive(p, I)
    \/ add_turf_insert(p)
    \/ update_turf_receive(p, I)
    \/ update_turf_find(p)
    \/ update_turf_update(p)
    \/ delete_turf_receive(p, I)
    \/ delete_turf_find(p)
    \/ delete_turf_find_active(p)
    \/ delete_turf_delete(p)

(***************************************************************************)
(* The state after construction: an empty store, idle workers.             *)
(***************************************************************************)
InitEmpty ==
    /\ users = <<>>
    /\ turf_owners = <<>>
    /\ turfs = <<>>
    /\ bookings = <<>>
    /\ nextTurfId = 1
    /\ req = [p \in Procs |-> IdleReq]

RegNext == \E p \in Procs : Register(p)

\* The registration routes served by concurrent workers.
RegSpec == InitEmpty /\ [][RegNext]_vars

\* The store once two customers and two owners have registered, one after
\* the other, through user_register and owner_register.
RegisteredActors(op) ==
    LET first == InsertOne(<<>>, ActorDoc(<<>>,
                     [username |-> "u1", email |-> "a@x.com", password |-> "pw"]))
    IN  InsertOne(first, ActorDoc(first,
                     [username |-> "u2", email |-> "b@x.com", password |-> "pw"]))

Init ==
    /\ users = RegisteredActors("user_register")
    /\ turf_owners = RegisteredActors("owner_register")
    /\ turfs = <<>>
    /\ bookings = <<>>
    /\ nextTurfId = 1
    /\ req = [p \in Procs |-> IdleReq]

\* The requests of the concurrent specification.
Inputs ==
    [customers |-> {1}, owners |-> {1}, spellings |-> {"lower"},
     prices |-> {2},
     bodies |-> {[other |-> 0], [availability |-> FALSE]},
     max_turfs |-> MaxTurfs, max_bookings |-> ConcMaxBookings,
     max_time |-> ConcMaxTime,
     fracs |-> {0}, zones |-> {""}]

Next == \E p \in Procs : Handle(p, Inputs)

\* The turf and booking routes served by concurrent workers.
Spec == Init /\ [][Next]_vars

\* The requests of the sequential specification.
SeqInputs ==
    [customers |-> {1, 2}, owners |-> {1}, spellings |-> {"lower"},
     prices |-> {2},
     bodies |-> {[other |-> 0], [availability |-> FALSE]},
     max_turfs |-> MaxTurfs, max_bookings |-> MaxBookings,
     max_time |-> MaxTime,
     fracs |-> {0}, zones |-> {""}]

SeqNext == Handle(1, SeqInputs)

\* The same routes served by one worker: requests run one at a time.
SeqSpec == Init /\ [][SeqNext]_vars

\* The requests of the price specification.
PriceInputs ==
    [customers |-> {1}, owners |-> {1}, spellings |-> {"lower"},
     prices |-> {2, 3},
     bodies |-> {[price_per_hour |-> 3],
                 [price_per_hour |-> 2, availability |-> TRUE]},
     max_turfs |-> MaxTurfs, max_bookings |-> MaxBookings,
     max_time |-> PriceMaxTime,
     fracs |-> {0}, zones |-> {""}]

PriceNext == Handle(1, PriceInputs)

\* One worker; turfs of several prices, and updates of the price.
PriceSpec == Init /\ [][PriceNext]_vars

\* The requests of the specification of id spellings and interval positions.
CaseInputs ==
    [customers |-> {1}, owners |-> {1}, spellings |-> {"lower", "upper"},
     prices |-> {2},
     bodies |-> {[availability |-> FALSE], [availability |-> TRUE]},
     max_turfs |-> MaxTurfs, max_bookings |-> CaseMaxBookings,
     max_time |-> CaseMaxTime,
     fracs |-> {0}, zones |-> {""}]

CaseNext == Handle(1, CaseInputs)

\* One worker; turf ids in either spelling, intervals in every position.
CaseSpec == Init /\ [][CaseNext]_vars

\* The requests of the ownership specification: two customers, two owners.
OwnerInputs ==
    [customers |-> {1, 2}, owners |-> {1, 2}, spellings |-> {"lower"},
     prices |-> {2},
     bodies |-> {[availability |-> FALSE]},
     max_turfs |-> MaxTurfs, max_bookings |-> MaxBookings,
     max_time |-> MaxTime,
     fracs |-> {0}, zones |-> {""}]

OwnerNext == Handle(1, OwnerInputs)

\* One worker; every actor asks for every booking and every turf.
OwnerSpec == Init /\ [][OwnerNext]_vars

\* The requests of the update specification: two owners, bodies with and
\* without an updatable field (the name).
UpdateInputs ==
    [customers |-> {1}, owners |-> {1, 2}, spellings |-> {"lower"},
     prices |-> {2},
     bodies |-> {[other |-> 0], [name |-> "pitch", other |-> 0]},
     max_turfs |-> MaxTurfs, max_bookings |-> MaxBookings,
     max_time |-> MaxTime,
     fracs |-> {0}, zones |-> {""}]

UpdateNext == Handle(1, UpdateInputs)

\* One worker; updates of own and of other owners' turfs.
UpdateSpec == Init /\ [][UpdateNext]_vars

\* The requests of the gate specification: every gated route, with every
\* kind of token.
GateInputs ==
    [customers |-> {1}, owners |-> {1}, spellings |-> {"lower"},
     prices |-> {2},
     bodies |-> {[availability |-> FALSE]},
     max_turfs |-> MaxTurfs, max_bookings |-> MaxBookings,
     max_time |-> MaxTime,
     fracs |-> {0}, zones |-> {""}]

GateNext == Handle(1, GateInputs) \/ List(1, GateInputs)

\* One worker; the turf, booking and list routes.
GateSpec == Init /\ [][GateNext]_vars

AuthNext == Register(1) \/ Login(1)

\* One worker; registrations and logins, starting from an empty store.
AuthSpec == InitEmpty /\ [][AuthNext]_vars

\* The requests of the release specification: bookings, cancellations and
\* re-bookings of one turf.
ReleaseInputs ==
    [customers |-> {1}, owners |-> {1}, spellings |-> {"lower"},
     prices |-> {2},
     bodies |-> {[availability |-> FALSE]},
     max_turfs |-> MaxTurfs, max_bookings |-> ReleaseMaxBookings,
     max_time |-> ReleaseMaxTime,
     fracs |-> {0}, zones |-> {""}]

ReleaseNext == Handle(1, ReleaseInputs)

\* One worker; enough bookings to cancel one and book around it.
ReleaseSpec == Init /\ [][ReleaseNext]_vars

\* The requests of the specification of prices of either sign.
SignInputs ==
    [customers |-> {1}, owners |-> {1}, spellings |-> {"lower"},
     prices |-> {-1, 0, 2},
     bodies |-> {[price_per_hour |-> 0], [price_per_hour |-> -1]},
     max_turfs |-> MaxTurfs, max_bookings |-> MaxBookings,
     max_time |-> MaxTime,
     fracs |-> {0}, zones |-> {""}]

SignNext == Handle(1, SignInputs)

\* One worker; turfs created and updated with prices of either sign.
SignSpec == Init /\ [][SignNext]_vars

\* The requests of the list specification: two customers, two owners.
ListInputs ==
    [customers |-> {1, 2}, owners |-> {1, 2}, spellings |-> {"lower"},
     prices |-> {2},
     bodies |-> {[availability |-> FALSE]},
     max_turfs |-> MaxTurfs, max_bookings |-> MaxBookings,
     max_time |-> MaxTime,
     fracs |-> {0}, zones |-> {""}]

ListNext ==
    \/ book_turf_receive(1, ListInputs)
    \/ book_turf_find_turf(1)
    \/ book_turf_find_overlap(1)
    \/ book_turf_insert(1)
    \/ cancel_booking_receive(1, ListInputs)
    \/ cancel_booking_find(1)
    \/ cancel_booking_update(1)
    \/ add_turf_receive(1, ListInputs)
    \/ add_turf_insert(1)
    \/ List(1, ListInputs)

\* One worker; turfs added, bookings made and cancelled, lists asked for by
\* every actor.
ListSpec == Init /\ [][ListNext]_vars

\* The store once one customer and one owner have registered.
InitOneEach ==
    /\ users = InsertOne(<<>>, ActorDoc(<<>>,
                   [username |-> "u1", email |-> "a@x.com", password |-> "pw"]))
    /\ turf_owners = InsertOne(<<>>, ActorDoc(<<>>,
                   [username |-> "u1", email |-> "a@x.com", password |-> "pw"]))
    /\ turfs = <<>>
    /\ bookings = <<>>
    /\ nextTurfId = 1
    /\ req = [p \in Procs |-> IdleReq]

\* The requests of the frame specification.
FrameInputs ==
    [customers |-> {1}, owners |-> {1}, spellings |-> {"lower"},
     prices |-> {2},
     bodies |-> {[other |-> 0], [availability |-> FALSE]},
     max_turfs |-> MaxTurfs, max_bookings |-> MaxBookings,
     max_time |-> MaxTime,
     fracs |-> {0}, zones |-> {""}]

FrameNext ==
    \/ user_register_receive(1)
    \/ user_register_find_email(1)
    \/ user_register_find_username(1)
    \/ user_register_insert(1)
    \/ Login(1)
    \/ Handle(1, FrameInputs)
    \/ List(1, FrameInputs)

\* One worker; the routes that write and the routes that only read
\* (owner_register, the same code as user_register on the other
\* collection, is left to the registration specifications).
FrameSpec == InitOneEach /\ [][FrameNext]_vars

\* The requests of the clock specification: times within a millisecond of
\* the hour, with and without a zone.
ClockInputs ==
    [customers |-> {1}, owners |-> {1}, spellings |-> {"lower"},
     prices |-> {2},
     bodies |-> {[availability |-> FALSE]},
     max_turfs |-> MaxTurfs, max_bookings |-> MaxBookings,
     max_time |-> MaxTime,
     fracs |-> {0, 1, 9}, zones |-> {"", "Z"}]

ClockNext == Handle(1, ClockInputs)

\* One worker; bookings whose times differ by less than a millisecond or
\* in their zone suffix.
ClockSpec == Init /\ [][ClockNext]_vars

\* The requests of the specification of malformed identifiers.
BadIdInputs ==
    [customers |-> {1}, owners |-> {1}, spellings |-> {"lower", "malformed"},
     prices |-> {2},
     bodies |-> {[availability |-> FALSE]},
     max_turfs |-> MaxTurfs, max_bookings |-> MaxBookings,
     max_time |-> MaxTime,
     fracs |-> {0}, zones |-> {""}]

BadIdNext == Handle(1, BadIdInputs) \/ List(1, BadIdInputs)

\* One worker; turf and booking ids that are not ObjectId strings.
BadIdSpec == Init /\ [][BadIdNext]_vars


(***************************************************************************)
(* Properties.                                                             *)
(***************************************************************************)
\* The half-open intervals [s1, e1) and [s2, e2) overlap.
Overlaps(s1, e1, s2, e2) == s1 < e2 /\ e1 > s2

\* The confirmed bookings of the turf with ObjectId oid.
ConfirmedOn(oid) ==
    {i \in DOMAIN bookings :
        bookings[i].status = "confirmed" /\ ObjectId(bookings[i].turf_id) = oid}

\* Worker p takes a step.
Steps(p) == req'[p] # req[p]

\* C1: no two confirmed bookings of the same turf have overlapping
\* half-open intervals, under any interleaving of book_turf and
\* cancel_booking requests.
NoDoubleBooking ==
    \A i, j \in DOMAIN bookings :
        (/\ i # j
         /\ bookings[i].status = "confirmed"
         /\ bookings[j].status = "confirmed"
         /\ ObjectId(bookings[i].turf_id) = ObjectId(bookings[j].turf_id))
        => ~Overlaps(bookings[i].start_time, bookings[i].end_time,
                     bookings[j].start_time, bookings[j].end_time)

\* The request of worker p touches a confirmed booking of its turf end to
\* end and overlaps none.
AdjacentOnly(p) ==
    /\ \E i \in ConfirmedOn(ObjectId(req[p].turf_id)) :
          \/ bookings[i].end_time = req[p].start_time
          \/ bookings[i].start_time = req[p].end_time
    /\ \A i \in ConfirmedOn(ObjectId(req[p].turf_id)) :
          ~Overlaps(bookings[i].start_time, bookings[i].end_time,
                    req[p].start_time, req[p].end_time)

\* C2: a booking request on an available turf whose interval starts where
\* a confirmed booking ends, or ends where one starts, and overlaps no
\* confirmed booking, passes the overlap lookup and goes on to its insert.
AdjacencyAllowed ==
    [][\A p \in Procs :
          (At(p, "book_turf", "find_overlap") /\ AdjacentOnly(p) /\ Steps(p))
          => req'[p].pc = "insert"]_vars

\* The request of worker p overlaps a confirmed booking of its turf.
OverlapsConfirmed(p) ==
    \E i \in ConfirmedOn(ObjectId(req[p].turf_id)) :
        Overlaps(bookings[i].start_time, bookings[i].end_time,
                 req[p].start_time, req[p].end_time)

\* C3: requests running one at a time, a booking request on an available
\* turf whose interval overlaps a confirmed booking of that turf is
\* answered "Time slot unavailable" and inserts nothing.
OverlapRejected ==
    [][\A p \in Procs :
          (At(p, "book_turf", "find_overlap") /\ OverlapsConfirmed(p) /\ Steps(p))
          => /\ req'[p].pc = "done"
             /\ req'[p].result = SlotUnavailable
             /\ bookings' = bookings]_vars

\* The booking the cancel request of worker p names, owned by its customer
\* (0: none).
OwnBooking(p) ==
    LET own == {i \in DOMAIN bookings :
                   /\ bookings[i].id = ObjectId(req[p].id)
                   /\ bookings[i].user_id = req[p].current_user[2]}
    IN  IF own = {} THEN 0 ELSE CHOOSE i \in own : TRUE

\* C4: cancel_booking by the customer of a booking that is already
\* cancelled answers "Booking already cancelled" and changes nothing in
\* the store.
CancelCancelledRejected ==
    [][\A p \in Procs :
          (/\ At(p, "cancel_booking", "find_booking")
           /\ OwnBooking(p) # 0
           /\ bookings[OwnBooking(p)].status = "cancelled"
           /\ Steps(p))
          => /\ req'[p].pc = "done"
             /\ req'[p].result = AlreadyCancelled
             /\ UNCHANGED store]_vars

\* A cancel request was answered "Booking already cancelled".
CancelledTwice ==
    \E p \in Procs : Returned(p, "cancel_booking", AlreadyCancelled)

\* C5: every booking is inserted with status confirmed, a status is
\* confirmed or cancelled, and a cancelled booking stays stored and
\* cancelled in every later state.
StatusOnlyToCancelled ==
    [][/\ \A i \in DOMAIN bookings :
             /\ i \in DOMAIN bookings'
             /\ bookings'[i].status \in {"confirmed", "cancelled"}
             /\ bookings[i].status = "cancelled"
                    => bookings'[i].status = "cancelled"
       /\ \A i \in DOMAIN bookings' \ DOMAIN bookings :
             bookings'[i].status = "confirmed"]_vars

\* A booking is cancelled and a later request on its turf has been served.
CancelledThenServed ==
    \E i \in DOMAIN bookings :
        /\ bookings[i].status = "cancelled"
        /\ \E p \in Procs :
              \/ Returned(p, "delete_turf", TurfDeleted)
              \/ Returned(p, "update_turf", TurfUpdated)

\* C6: the booking a request inserts carries the price the request read
\* from its turf times the hours of its interval, and no step changes the
\* total cost of a stored booking, an update of the turf's price included.
CostFixedAtCreation ==
    [][/\ \A i \in DOMAIN bookings :
             /\ i \in DOMAIN bookings'
             /\ bookings'[i].total_cost = bookings[i].total_cost
       /\ \A p \in Procs :
             (At(p, "book_turf", "insert") /\ Steps(p))
             => /\ Len(bookings') = Len(bookings) + 1
                /\ bookings'[Len(bookings')].total_cost * TicksPerHour
                       = req[p].turf.price_per_hour
                             * (req[p].end_time - req[p].start_time)]_vars

\* An update has changed the price of a turf that has a booking: the
\* booking's cost is no longer the turf's price times its hours.
CostOutlivesPrice ==
    /\ \E p \in Procs : Returned(p, "update_turf", TurfUpdated)
    /\ \E i \in DOMAIN bookings, j \in DOMAIN turfs :
          /\ turfs[j].id = ObjectId(bookings[i].turf_id)
          /\ bookings[i].end_time - bookings[i].start_time > TicksPerHour
          /\ bookings[i].total_cost * TicksPerHour
                 # turfs[j].price_per_hour
                       * (bookings[i].end_time - bookings[i].start_time)

\* The booking id of the cancel request of worker p is stored and belongs
\* to another customer.
OthersBooking(p) ==
    \E i \in DOMAIN bookings :
        /\ bookings[i].id = ObjectId(req[p].id)
        /\ bookings[i].user_id # req[p].current_user[2]

\* The booking id of the cancel request of worker p is not stored.
NoSuchBooking(p) ==
    \A i \in DOMAIN bookings : bookings[i].id # ObjectId(req[p].id)

\* C7: cancel_booking on a booking of another customer, whatever its
\* status, and cancel_booking on an id that is not stored get the same
\* answer, "Booking not found or unauthorized", and change nothing.
CancelOpaque ==
    [][\A p \in Procs :
          (/\ At(p, "cancel_booking", "find_booking")
           /\ OthersBooking(p) \/ NoSuchBooking(p)
           /\ Steps(p))
          => /\ req'[p].pc = "done"
             /\ req'[p].result = BookingNotFound
             /\ UNCHANGED store]_vars

\* A customer was refused the cancel of another customer's booking.
OthersCancelRefused ==
    \E p \in Procs :
        /\ Returned(p, "cancel_booking", BookingNotFound)
        /\ OthersBooking(p)

\* C8: requests running one at a time, delete_turf by the owner of a turf
\* that has a confirmed booking answers "Cannot delete turf with active
\* bookings" and leaves the turf; with no confirmed booking it goes on to
\* remove the turf.
DeleteGuard ==
    [][\A p \in Procs :
          (At(p, "delete_turf", "find_active") /\ Steps(p))
          => IF ConfirmedOn(ObjectId(req[p].id)) # {}
             THEN /\ req'[p].pc = "done"
                  /\ req'[p].result = HasActiveBookings
                  /\ turfs' = turfs
             ELSE req'[p].pc = "delete"]_vars

\* C9: every confirmed booking references a turf that is stored, under
\* any interleaving of delete_turf and book_turf.
ConfirmedTurfExists ==
    \A i \in DOMAIN bookings :
        bookings[i].status = "confirmed"
        => \E j \in DOMAIN turfs : turfs[j].id = ObjectId(bookings[i].turf_id)

\* No two documents of the collection share an email or a username.
UniqueActors(coll) ==
    \A i, j \in DOMAIN coll :
        i # j => /\ coll[i].email # coll[j].email
                 /\ coll[i].username # coll[j].username

\* C10: of concurrent registrations with one email in one collection only
\* one succeeds: no two customers, and no two owners, share an email or a
\* username.
UniqueEmailAndUsername == UniqueActors(users) /\ UniqueActors(turf_owners)

\* Worker p is inside the handler of operation op.
Inside(p, op) == req[p].op = op /\ ~Free(p)

\* C11: only the customer of a booking and the owner of a turf change them:
\* a step of cancel_booking leaves every booking of another customer as it
\* was, a step of update_turf or delete_turf leaves every turf of another
\* owner stored and as it was, and no step changes the owner_id of a turf.
OwnerOnlyMutation ==
    [][\A p \in Procs :
          Steps(p)
          => /\ Inside(p, "cancel_booking")
                => \A i \in DOMAIN bookings :
                      bookings[i].user_id # req[p].current_user[2]
                      => /\ i \in DOMAIN bookings'
                         /\ bookings'[i] = bookings[i]
             /\ Inside(p, "update_turf") \/ Inside(p, "delete_turf")
                => \A i \in DOMAIN turfs :
                      turfs[i].owner_id # req[p].current_user[2]
                      => \E j \in DOMAIN turfs' : turfs'[j] = turfs[i]
             /\ \A i \in DOMAIN turfs, j \in DOMAIN turfs' :
                   turfs'[j].id = turfs[i].id
                   => turfs'[j].owner_id = turfs[i].owner_id]_vars

\* An owner was refused the update of a turf that another owner holds.
OthersTurfRefused ==
    \E p \in Procs :
        /\ Returned(p, "update_turf", TurfNotFound)
        /\ \E i \in DOMAIN turfs :
              /\ turfs[i].id = ObjectId(req[p].id)
              /\ turfs[i].owner_id # req[p].current_user[2]

\* The routes behind the access gate, and the role each one requires.
GatedOps ==
    {"book_turf", "get_user_bookings", "cancel_booking", "add_turf",
     "update_turf", "delete_turf", "get_owner_turfs", "get_turf_bookings"}

RequiredRole(op) ==
    IF op \in {"book_turf", "get_user_bookings", "cancel_booking"}
    THEN "user" ELSE "owner"

\* What the claim has the gate answer to a token it refuses.
Refusal(token, op) ==
    IF token.kind = "missing" THEN TokenMissing
    ELSE IF token.kind = "invalid" THEN TokenInvalid
    ELSE IF token.user_type # RequiredRole(op) THEN Unauthorized
    ELSE "ok"

\* C12: a request to a gated route with a missing or invalid token is
\* answered 401 ("Token is missing", "Token is invalid"), with a valid
\* token of the wrong role 403 ("Unauthorized"); only a token of the
\* required role gets into the handler; the refusal is the first step of
\* the request, before any store call, and changes nothing in the store.
AccessGate ==
    /\ [](\A p \in Procs :
             req[p].op \in GatedOps
             => /\ "token" \in DOMAIN req[p]
                   => /\ req[p].pc = "done"
                      /\ Refusal(req[p].token, req[p].op) # "ok"
                      /\ req[p].result = Refusal(req[p].token, req[p].op)
                /\ (req[p].pc = "done"
                       /\ req[p].result \in {TokenMissing, TokenInvalid,
                                             Unauthorized})
                   => "token" \in DOMAIN req[p]
                /\ "current_user" \in DOMAIN req[p]
                   => req[p].current_user[1] = RequiredRole(req[p].op))
    /\ [][\A p \in Procs :
             (/\ Steps(p)
              /\ req'[p].op \in GatedOps
              /\ "token" \in DOMAIN req'[p])
             => Free(p) /\ UNCHANGED store]_vars

\* An owner's valid token was refused on the booking route, turfs being
\* stored.
OwnerRefusedBooking ==
    \E p \in Procs :
        /\ Returned(p, "book_turf", Unauthorized)
        /\ req[p].token.kind = "signed"
        /\ req[p].token.user_type = "owner"
        /\ turfs # <<>>

\* The request of worker p overlaps a cancelled booking of its turf.
OverlapsCancelled(p) ==
    \E i \in DOMAIN bookings :
        /\ bookings[i].status = "cancelled"
        /\ ObjectId(bookings[i].turf_id) = ObjectId(req[p].turf_id)
        /\ Overlaps(bookings[i].start_time, bookings[i].end_time,
                    req[p].start_time, req[p].end_time)

\* C13: a cancelled booking releases its slot: a booking request on an
\* available turf whose interval overlaps a cancelled booking of that turf
\* and no confirmed one passes the overlap lookup and goes on to its
\* insert.
CancelReleasesSlot ==
    [][\A p \in Procs :
          (/\ At(p, "book_turf", "find_overlap")
           /\ OverlapsCancelled(p)
           /\ ~OverlapsConfirmed(p)
           /\ Steps(p))
          => req'[p].pc = "insert"]_vars

\* C14: a booking request whose end is not after its start is answered
\* "End time must be after start time" in its first step, before the turf
\* lookup, and changes nothing in the store; no such request gets into the
\* handler's store calls, and every stored booking ends after it starts.
\* The last part fails: an interval shorter than a millisecond passes the
\* test and is stored with its end equal to its start.
ProperIntervals ==
    /\ [](/\ \A i \in DOMAIN bookings :
                bookings[i].end_time > bookings[i].start_time
          /\ \A p \in Procs :
                Inside(p, "book_turf") => req[p].end_time > req[p].start_time)
    /\ [][\A p \in Procs :
             (/\ Steps(p)
              /\ req'[p].op = "book_turf"
              /\ req'[p].pc = "done"
              /\ req'[p].result = InvalidInterval)
             => Free(p) /\ UNCHANGED store]_vars

\* The turf the booking request of worker p names is stored and available.
BookableTurf(p) ==
    \E i \in DOMAIN turfs :
        /\ turfs[i].id = ObjectId(req[p].turf_id)
        /\ turfs[i].availability = TRUE

\* C15: requests running one at a time, a booking request goes past the
\* turf lookup only if the turf it names is stored with availability true,
\* and is otherwise answered "Turf not available" with nothing inserted; a
\* booking is inserted only for such a turf; and update_turf, which may
\* clear the flag, leaves every booking as it was.
AvailabilityGuard ==
    [][\A p \in Procs :
          Steps(p)
          => /\ At(p, "book_turf", "find_turf")
                => IF BookableTurf(p)
                   THEN req'[p].pc = "find_overlap"
                   ELSE /\ req'[p].pc = "done"
                        /\ req'[p].result = TurfUnavailable
                        /\ UNCHANGED store
             /\ At(p, "book_turf", "insert") => BookableTurf(p)
             /\ Inside(p, "update_turf") => bookings' = bookings]_vars

\* A booking request was refused on a stored turf whose flag is false.
UnavailableRefused ==
    \E p \in Procs :
        /\ Returned(p, "book_turf", TurfUnavailable)
        /\ \E i \in DOMAIN turfs :
              /\ turfs[i].id = ObjectId(req[p].turf_id)
              /\ turfs[i].availability = FALSE

\* C16: every stored turf has a price per hour above zero.
PositivePrices ==
    \A i \in DOMAIN turfs : turfs[i].price_per_hour > 0

\* C17: no request ends in an exception the handler does not catch.
NoUnhandledFailure ==
    \A p \in Procs : req[p].pc = "done" => req[p].result # ServerError

\* The collection a registration route checks and writes.
RegisterCollection(op) == IF op = "user_register" THEN users ELSE turf_owners

EmailStored(coll, email) == \E i \in DOMAIN coll : coll[i].email = email

UsernameStored(coll, username) ==
    \E i \in DOMAIN coll : coll[i].username = username

\* C18: requests running one at a time, a registration looks its email up
\* first and is answered "Email already registered" if the role's own
\* collection holds it, whatever its username; only then it looks its
\* username up and is answered "Username already taken" if that collection
\* holds it; either answer leaves the store as it was, and the other
\* role's collection plays no part.
EmailBeforeUsername ==
    [][\A p \in Procs : \A op \in {"user_register", "owner_register"} :
          Steps(p)
          => /\ At(p, op, "find_email")
                => IF EmailStored(RegisterCollection(op), req[p].email)
                   THEN /\ req'[p].pc = "done"
                        /\ req'[p].result = EmailRegistered
                        /\ UNCHANGED store
                   ELSE req'[p].pc = "find_username"
             /\ At(p, op, "find_username")
                => /\ ~EmailStored(RegisterCollection(op), req[p].email)
                   /\ IF UsernameStored(RegisterCollection(op), req[p].username)
                      THEN /\ req'[p].pc = "done"
                           /\ req'[p].result = UsernameTaken
                           /\ UNCHANGED store
                      ELSE req'[p].pc = "insert"]_vars

\* A customer registration whose email and username were both stored was
\* answered for the email.
BothTakenEmailWins ==
    \E p \in Procs :
        /\ Returned(p, "user_register", EmailRegistered)
        /\ EmailStored(users, req[p].email)
        /\ UsernameStored(users, req[p].username)

\* The stored turfs that the update request of worker p names and that its
\* owner holds.
OwnedTurfs(p) ==
    {i \in DOMAIN turfs :
        /\ turfs[i].id = ObjectId(req[p].id)
        /\ turfs[i].owner_id = req[p].current_user[2]}

\* C19: requests running one at a time, update_turf on a turf that is
\* missing or held by another owner is answered "Turf not found or
\* unauthorized"; else, with no updatable field in the body, "No fields to
\* update"; both leave the store as it was.  Otherwise the update sets
\* exactly the updatable fields of the body on that turf and leaves its
\* other fields, every other turf and every booking as they were.
ExactUpdate ==
    [][\A p \in Procs :
          Steps(p)
          => /\ At(p, "update_turf", "find_turf")
                => IF OwnedTurfs(p) = {}
                   THEN /\ req'[p].pc = "done"
                        /\ req'[p].result = TurfNotFound
                        /\ UNCHANGED store
                   ELSE IF DOMAIN req[p].data \cap UpdatableFields = {}
                   THEN /\ req'[p].pc = "done"
                        /\ req'[p].result = NoFields
                        /\ UNCHANGED store
                   ELSE req'[p].pc = "update"
             /\ At(p, "update_turf", "update")
                => /\ req'[p].result = TurfUpdated
                   /\ UNCHANGED <<users, turf_owners, bookings, nextTurfId>>
                   /\ DOMAIN turfs' = DOMAIN turfs
                   /\ \A i \in DOMAIN turfs :
                         IF i \in OwnedTurfs(p)
                         THEN /\ DOMAIN turfs'[i] = DOMAIN turfs[i]
                              /\ \A f \in DOMAIN turfs[i] :
                                    turfs'[i][f] =
                                        IF f \in DOMAIN req[p].data
                                                    \cap UpdatableFields
                                        THEN req[p].data[f]
                                        ELSE turfs[i][f]
                         ELSE turfs'[i] = turfs[i]]_vars

\* An owner renamed an own turf with a body that also held a field the
\* loop does not look for: the turf has the new name and no such field, and
\* its flag, its price and the booking made on it are as before.
NameOnlyUpdated ==
    \E p \in Procs :
        /\ Returned(p, "update_turf", TurfUpdated)
        /\ DOMAIN req[p].data = {"name", "other"}
        /\ \E i \in DOMAIN turfs :
              /\ turfs[i].id = ObjectId(req[p].id)
              /\ turfs[i].owner_id = req[p].current_user[2]
              /\ turfs[i].name = req[p].data.name
              /\ "other" \notin DOMAIN turfs[i]
              /\ turfs[i].availability
              /\ turfs[i].price_per_hour = 2
              /\ \E j \in DOMAIN bookings :
                    /\ bookings[j].status = "confirmed"
                    /\ ObjectId(bookings[j].turf_id) = turfs[i].id

\* The collection a login route reads, and the role it signs into a token.
LoginCollection(op) == IF op = "user_login" THEN users ELSE turf_owners

LoginRole(op) == IF op = "user_login" THEN "user" ELSE "owner"

\* The stored actors whose email and password are those of the login
\* request of worker p.
MatchingActors(p, op) ==
    {i \in DOMAIN LoginCollection(op) :
        /\ LoginCollection(op)[i].email = req[p].email
        /\ LoginCollection(op)[i].password
               = generate_password_hash(req[p].password)}

\* C20: requests running one at a time, a login whose email is not stored
\* in the role's collection and a login whose password does not verify get
\* the same answer, "Invalid credentials", and no token; a login whose
\* email and password both match gets a token that carries the role of the
\* collection and the id of the matching actor.  A login changes nothing in
\* the store.
SameInvalidCredentials ==
    [][\A p \in Procs : \A op \in {"user_login", "owner_login"} :
          (Steps(p) /\ At(p, op, "find"))
          => /\ UNCHANGED store
             /\ req'[p].pc = "done"
             /\ IF MatchingActors(p, op) = {}
                THEN /\ req'[p].result = InvalidCredentials
                     /\ "token" \notin DOMAIN req'[p]
                ELSE /\ req'[p].result = LoginSuccessful
                     /\ req'[p].token.kind = "signed"
                     /\ req'[p].token.user_type = LoginRole(op)
                     /\ \E i \in MatchingActors(p, op) :
                           req'[p].token.user_id
                               = Str(LoginCollection(op)[i].id)]_vars

\* A login with a stored email and a password that does not verify was
\* answered "Invalid credentials".
WrongPasswordRefused ==
    \E p \in Procs :
        /\ Returned(p, "user_login", InvalidCredentials)
        /\ EmailStored(users, req[p].email)
        /\ MatchingActors(p, "user_login") = {}

\* The stored bookings of the customer who sent the request of worker p, in
\* insertion order.
CallersBookings(p) ==
    SelectSeq(bookings, LAMBDA b : b.user_id = req[p].current_user[2])

\* The item of a list shows the booking b: it holds every field of b but
\* the store's id, with b's value, and nothing else.
Shows(item, b) ==
    /\ DOMAIN item = DOMAIN b \ {"id"}
    /\ \A f \in DOMAIN item : item[f] = b[f]

\* C21: requests running one at a time, get_turf_bookings by an owner who
\* does not hold the turf gets the answer of a turf that does not exist,
\* "Turf not found or unauthorized", and no booking; the bookings it lists
\* to the owner of the turf are bookings of that turf.  get_user_bookings
\* lists exactly the caller's bookings, confirmed and cancelled, in
\* insertion order ("No bookings found" when there is none).
ListsVisibility ==
    [][\A p \in Procs :
          Steps(p)
          => /\ At(p, "get_turf_bookings", "find_turf")
                => IF OwnedTurfs(p) = {}
                   THEN /\ req'[p].pc = "done"
                        /\ req'[p].result = TurfNotFound
                        /\ "body" \notin DOMAIN req'[p]
                   ELSE req'[p].pc = "find_bookings"
             /\ At(p, "get_turf_bookings", "find_bookings")
                => /\ OwnedTurfs(p) # {}
                   /\ "body" \in DOMAIN req'[p]
                      => \A k \in DOMAIN req'[p].body :
                            ObjectId(req'[p].body[k].turf_id)
                                = ObjectId(req[p].id)
             /\ At(p, "get_user_bookings", "find")
                => /\ req'[p].pc = "done"
                   /\ IF CallersBookings(p) = <<>>
                      THEN /\ req'[p].result = NoBookingsFound
                           /\ "body" \notin DOMAIN req'[p]
                      ELSE /\ req'[p].result = ListReturned
                           /\ Len(req'[p].body) = Len(CallersBookings(p))
                           /\ \A k \in DOMAIN req'[p].body :
                                 Shows(req'[p].body[k],
                                       CallersBookings(p)[k])]_vars

\* An owner asked for the bookings of a booked turf that another owner
\* holds and was answered as for a turf that does not exist.
OthersTurfBookingsHidden ==
    \E p \in Procs :
        /\ Returned(p, "get_turf_bookings", TurfNotFound)
        /\ \E i \in DOMAIN turfs :
              /\ turfs[i].id = ObjectId(req[p].id)
              /\ turfs[i].owner_id # req[p].current_user[2]
        /\ \E i \in DOMAIN bookings :
              ObjectId(bookings[i].turf_id) = ObjectId(req[p].id)

\* C22: under any interleaving of cancel_booking requests, at most one
\* request is answered "Booking cancelled successfully" for one booking.
OneCancelSucceeds ==
    \A p, q \in Procs :
        (/\ p # q
         /\ Returned(p, "cancel_booking", BookingCancelled)
         /\ Returned(q, "cancel_booking", BookingCancelled))
        => ObjectId(req[p].id) # ObjectId(req[q].id)

\* C23: a stored booking keeps its place, its id, its turf_id, its user_id,
\* its start and end times, its total cost and its notes in every later
\* state: status is the only field of a booking that any step changes.
BookingFieldsFrozen ==
    [][\A i \in DOMAIN bookings :
          /\ i \in DOMAIN bookings'
          /\ DOMAIN bookings'[i] = DOMAIN bookings[i]
          /\ \A f \in DOMAIN bookings[i] \ {"status"} :
                bookings'[i][f] = bookings[i][f]]_vars

\* A customer cancelled a booking: it is stored cancelled, with the
\* customer, the interval and the cost it was booked with.
CancelledKeepsFields ==
    \E p \in Procs :
        /\ Returned(p, "cancel_booking", BookingCancelled)
        /\ \E i \in DOMAIN bookings :
              /\ bookings[i].id = ObjectId(req[p].id)
              /\ bookings[i].status = "cancelled"
              /\ bookings[i].user_id = req[p].current_user[2]
              /\ bookings[i].end_time > bookings[i].start_time
              /\ bookings[i].total_cost > 0
              /\ bookings[i].notes = ""

\* C24: no step removes a booking: every stored booking is stored in the
\* next state and the collection never shrinks; the steps of delete_turf,
\* the delete included, leave the bookings collection as it was; and
\* get_user_bookings lists every stored booking of its caller, whether or
\* not the turf of the booking is still stored.
BookingsOnlyGrow ==
    [][/\ Len(bookings') >= Len(bookings)
       /\ \A i \in DOMAIN bookings :
             \E j \in DOMAIN bookings' : bookings'[j].id = bookings[i].id
       /\ \A p \in Procs :
             Steps(p)
             => /\ Inside(p, "delete_turf") => bookings' = bookings
                /\ At(p, "get_user_bookings", "find")
                   => \A i \in DOMAIN bookings :
                         bookings[i].user_id = req[p].current_user[2]
                         => /\ "body" \in DOMAIN req'[p]
                            /\ \E k \in DOMAIN req'[p].body :
                                  Shows(req'[p].body[k], bookings[i])]_vars

\* A customer was listed a cancelled booking of a turf that has been
\* deleted.
DeletedTurfBookingListed ==
    \E p \in Procs :
        /\ Returned(p, "get_user_bookings", ListReturned)
        /\ \E k \in DOMAIN req[p].body :
              /\ req[p].body[k].status = "cancelled"
              /\ \E i \in DOMAIN bookings : Shows(req[p].body[k], bookings[i])
              /\ \A j \in DOMAIN turfs :
                    turfs[j].id # ObjectId(req[p].body[k].turf_id)

\* The answers of a request that was refused.
Rejections ==
    {TokenMissing, TokenInvalid, Unauthorized, MissingFields, EmailRegistered,
     UsernameTaken, InvalidCredentials, InvalidInterval, TurfUnavailable,
     SlotUnavailable, BookingNotFound, AlreadyCancelled, TurfNotFound,
     NoFields, HasActiveBookings, NoBookingsFound, NoTurfsFound}

\* The answers of a successful request of a route that writes, and of a
\* route that only reads.
WriteSuccesses ==
    {UserCreated, OwnerCreated, BookingCreated, BookingCancelled, TurfAdded,
     TurfUpdated, TurfDeleted}

ReadSuccesses == {LoginSuccessful, ListReturned}

\* The next store call of worker p is a write.
WriteStep(p) == ~Free(p) /\ req[p].pc \in {"insert", "update", "delete"}

\* The collections that differ between this state and the next.
ChangedCollections ==
    {c \in {"users", "turf_owners", "turfs", "bookings"} :
        \/ c = "users" /\ users' # users
        \/ c = "turf_owners" /\ turf_owners' # turf_owners
        \/ c = "turfs" /\ turfs' # turfs
        \/ c = "bookings" /\ bookings' # bookings}

\* What C25 states of every request: a refused request has changed
\* nothing, only the write call of a request changes the store, that call
\* is the last step of a request answered with success and changes one
\* collection.
WritesOnlyOnSuccess(p) ==
    /\ ~WriteStep(p) => UNCHANGED store
    /\ WriteStep(p)
       => /\ req'[p].pc = "done"
          /\ req'[p].result \in WriteSuccesses
          /\ Cardinality(ChangedCollections) <= 1
    /\ (req'[p].pc = "done" /\ req'[p].result \in Rejections)
       => UNCHANGED store

\* C25 as stated: a request that returns a rejection leaves the
\* collections as they were, only successful requests write, and each
\* successful request performs exactly one write.
EverySuccessWritesOnce ==
    [][\A p \in Procs :
          Steps(p)
          => /\ WritesOnlyOnSuccess(p)
             /\ (req'[p].pc = "done"
                    /\ req'[p].result \in WriteSuccesses \cup ReadSuccesses)
                => WriteStep(p)]_vars

\* C25: a request that returns a rejection leaves the collections as they
\* were, only successful requests write, each successful request of a route
\* that writes (register, book, cancel, add, update, delete) performs
\* exactly one write, as its last step, and a successful login or list
\* request performs none.
FrameOfRequests ==
    [][\A p \in Procs :
          Steps(p)
          => /\ WritesOnlyOnSuccess(p)
             /\ (req'[p].pc = "done" /\ req'[p].result \in WriteSuccesses)
                => WriteStep(p)
             /\ (req'[p].pc = "done" /\ req'[p].result \in ReadSuccesses)
                => ~WriteStep(p) /\ UNCHANGED store]_vars

\* A delete was refused for a confirmed booking: the turf and the booking
\* are stored.
DeleteRefusedKeepsTurf ==
    \E p \in Procs :
        /\ Returned(p, "delete_turf", HasActiveBookings)
        /\ \E j \in DOMAIN turfs : turfs[j].id = ObjectId(req[p].id)
        /\ \E i \in DOMAIN bookings :
              /\ bookings[i].status = "confirmed"
              /\ ObjectId(bookings[i].turf_id) = ObjectId(req[p].id)

====
